---- MODULE Spec2Model ----
(***************************************************************************)
(* Credential lifecycle of the Google Workspace MCP server: the tool-call  *)
(* dispatcher (server.ts, CallToolRequestSchema handler), setupOAuth2,     *)
(* startAuthFlow, the OAuth callback listener (OAuthServer) and the        *)
(* GAuthService operations they call (gauth.ts).  A second specification, *)
(* ToolSpec, runs the Gmail, Calendar and Drive service handlers and the   *)
(* routing of a tool call by its name on their own.                        *)
(*                                                                         *)
(* Handlers are async functions on one event loop: a handler runs          *)
(* atomically from one I/O completion to the next await on I/O, so every   *)
(* action below is the continuation that runs when one awaited I/O         *)
(* operation (file read, file write, HTTPS response) completes.            *)
(***************************************************************************)
EXTENDS Integers, Sequences, FiniteSets, TLC

\* ---------------------------------------------------------------- bounds
MaxEvents == 2     \* tool calls plus callback HTTP requests in one behaviour
MaxBatch == 2      \* ids in the argument of one batch operation

Calls == 1..MaxEvents
Reqs == 1..MaxEvents
\* Every flow is started by the startup check of a listed account or by a
\* tool call.
Flows == 1..(MaxEvents + 2)

\* ------------------------------------------------------------ the world
EmailA == "a@example.com"
EmailB == "b@example.com"
EmailZ == "z@example.com"
Listed == {EmailA, EmailB}              \* the emails of .accounts.json
Emails == Listed \cup {EmailZ}
NoUserId == ""                          \* args.user_id absent (falsy)

ToolNames ==
    {"gmail_list_accounts", "calendar_list_accounts", "gmail_get_email",
     "other_tool"}

SCOPES == {"openid", "userinfo.email", "mail", "calendar"}
UnderScopes == SCOPES \ {"calendar"}

\* OAuth2Client.credentials: owner is the Google account the tokens were
\* issued for (known to the upstream identity endpoint); refresh_token is
\* "" when absent, else names the grant it came from.
Cred(owner, refresh, scope) ==
    [owner |-> owner,
     refresh_token |-> IF refresh = "" THEN <<>> ELSE <<refresh, owner>>,
     scope |-> scope]
EmptyCreds == Cred("", "", {})
HasRefreshToken(credentials) == credentials.refresh_token # <<>>

\* A token file whose content JSON.parse rejects, "{" say; it is written in
\* the shape of Cred so that it compares with the other files.
Unparseable == <<Cred("{", "", {})>>
Parses(file) == file # <<>> /\ file # Unparseable

\* Token files a first state can hold for a listed account.
StoredChoices(e) ==
    { <<>>,
      Unparseable,
      <<Cred(e, "rt_stored", SCOPES)>>,
      <<Cred(e, "rt_stored", UnderScopes)>>,
      <<Cred(e, "", SCOPES)>> }

\* Authorization codes the browser redirect can carry, and what the token
\* endpoint grants for each; "code_bad" is rejected upstream.
Codes == {"code_b", "code_a_norefresh", "code_bad"}
Grant(code) ==
    CASE code = "code_b" -> Cred(EmailB, "rt_new", SCOPES)
      [] code = "code_a_norefresh" -> Cred(EmailA, "", SCOPES)
      [] OTHER -> EmptyCreds

VARIABLES
    accounts,     \* the account list getAccountInfo returns
    tokenFile,    \* email -> <<>> (no file) or <<credentials>>
    client,       \* credentials held by the shared OAuth2Client
    calls,        \* tool-call handler invocations
    listeners,    \* callback listeners created by startAuthFlow
    reqs,         \* handleRequest invocations
    usedCodes,    \* authorization codes already redeemed upstream
    crashed,      \* the process was terminated by an unhandled error
    phase,        \* start(): "constructed", "initialized", "checking",
                  \* "connected", "stopped"
    toCheck,      \* start(): the accounts whose stored credentials are unchecked
    events,       \* tool calls and HTTP requests received so far
    tool          \* the invocation of a service handler (handleTool)

vars == <<accounts, tokenFile, client, calls, listeners, reqs, usedCodes,
          crashed, phase, toCheck, events, tool>>

\* ------------------------------------------------------- pure operations

\* An authorization URL is modelled by its query parameters; <<>> is ''.
NoUrl == <<>>

\* A URL without prompt=consent: the fault C25 excludes.
getAuthorizationUrl_noPrompt(emailAddress, state) ==
    <<"offline", SCOPES, state, "", emailAddress>>

\* generateAuthUrl({access_type, scope, state, prompt, login_hint}); state is
\* the JSON text of the caller's state object.
getAuthorizationUrl(emailAddress, state) ==
    <<"offline", SCOPES, state, "consent", emailAddress>>

credentialsHaveScopes(credentials) == SCOPES \subseteq credentials.scope

\* A file name that does not depend on the account: the fault C5 excludes.
getCredentialFilename_fixed(userId) == EmailA

\* The token file of an account: .oauth2.{userId}.json, named here by userId.
getCredentialFilename(userId) == userId

\* A read that never finds the token file (null always): the fault C4
\* excludes.
getStoredCredentials_null(files, cl, userId) == [found |-> FALSE, client |-> cl]

\* A read that sets the client's credentials to the file's text before it
\* is parsed: the fault C18 excludes.
getStoredCredentials_setsUnparsed(files, cl, userId) ==
    LET file == files[getCredentialFilename(userId)] IN
    IF file = <<>> THEN [found |-> FALSE, client |-> cl]
    ELSE [found |-> Parses(file), client |-> file[1]]

\* getStoredCredentials: null when readFile or JSON.parse throws (the file
\* is missing or does not parse), otherwise the shared client after
\* setCredentials(file content).
getStoredCredentials(files, cl, userId) ==
    LET file == files[getCredentialFilename(userId)] IN
    IF ~Parses(file) THEN [found |-> FALSE, client |-> cl]
    ELSE [found |-> TRUE, client |-> file[1]]

storeCredentials(files, cl, userId) ==
    [files EXCEPT ![getCredentialFilename(userId)] = <<cl>>]

\* The userinfo data returned without the test for an id: the fault C9
\* excludes.
getUserInfo_noIdCheck(outcome, owner) ==
    IF outcome \in {"ok", "noid"} THEN [ok |-> TRUE, email |-> owner]
    ELSE [ok |-> FALSE, email |-> ""]

\* getUserInfo: the userinfo data when it carries an id, else a throw
\* (NoUserIdError for data without id, the request's own error otherwise).
getUserInfo(outcome, owner) ==
    IF outcome = "ok" THEN [ok |-> TRUE, email |-> owner]
    ELSE [ok |-> FALSE, email |-> ""]

\* Only the empty list rejected, the membership test missing: the fault C2
\* excludes.
accountNotConfigured_noListCheck(accts, userId) ==
    IF accts = {} THEN "No accounts specified" ELSE ""

\* The two checks setupOAuth2 makes on the account list: the message of the
\* error thrown, "" when the account is listed.
accountNotConfigured(accts, userId) ==
    IF accts = {} THEN "No accounts specified"
    ELSE IF userId \notin accts THEN "Account not specified"
    ELSE ""

\* What the token store holds for an account, in the words of the
\* specification's state machine.
RecordKind(file) ==
    IF ~Parses(file) THEN "none"
    ELSE IF ~(SCOPES \subseteq file[1].scope) THEN "underscoped"
    ELSE IF ~HasRefreshToken(file[1]) THEN "norefresh"
    ELSE "valid"

\* -------------------------------------------------------------- records

IdleCall ==
    [pc |-> "idle", name |-> "", user_id |-> NoUserId, setup |-> FALSE,
     found |-> "", expired |-> FALSE,
     authUrl |-> NoUrl, browser |-> "", listener |-> 0, noSubject |-> FALSE,
     stored |-> FALSE, routed |-> FALSE, usedCreds |-> EmptyCreds,
     result |-> <<>>, error |-> <<>>]

UnusedListener == [state |-> "unused", account |-> ""]

\* ------------------------------------------------------------ dispatcher

\* The dispatcher without its test for user_id: the fault C28 excludes.
MissingUserId_unchecked(user_id) == FALSE

\* !args.user_id
MissingUserId(user_id) == user_id = NoUserId

\* The dispatcher without its special case for the list_accounts tools: the
\* fault C21 excludes.
ListAccountsTool_none(name) == FALSE

ListAccountsTool(name) ==
    name = "gmail_list_accounts" \/ name = "calendar_list_accounts"

\* GmailTools.listAccounts and CalendarTools.listAccounts: the text returned
\* for the list getAccountInfo() gives (which is [] when the file cannot be
\* read, so the catch block is never entered).
listAccounts(accts) ==
    IF accts = {} THEN <<"No accounts configured", {}>>
    ELSE <<"Found configured account(s)", accts>>

\* name.startsWith('gmail_') etc.: the names of ToolNames that select a router.
HasRouter(name) ==
    name \in {"gmail_list_accounts", "calendar_list_accounts", "gmail_get_email"}

\* The return of an error payload {isError: true, content: {error: text,
\* success: false}}; text is a fixed message or "prefix: error.message".
\* A payload without error has error = <<>>.
ErrorPayload(call, text, message) ==
    [call EXCEPT !.pc = "done", !.error = <<text, message>>]

\* The routing of the dispatcher: the service handler is invoked (its REST
\* call goes out with the shared client as it is now) and returns or throws,
\* or 'Unknown tool' is thrown; a throw is caught and becomes a payload.
RouteToolCall(call, cl, toolOk) ==
    IF HasRouter(call.name)
    THEN [call EXCEPT !.pc = "done", !.routed = TRUE, !.usedCreds = cl,
                      !.error = IF toolOk THEN <<>>
                                ELSE <<"Tool execution failed", "REST call">>]
    ELSE ErrorPayload(call, "Tool execution failed", "Unknown tool")

PortBusy == \E l \in Flows : listeners[l].state = "listening"
FreeFlow(l) ==
    /\ listeners[l].state = "unused"
    /\ \A k \in Flows : k < l => listeners[k].state # "unused"

\* startAuthFlow(userId), as run by flow slot l with the given outcome of
\* spawn(): the URL is built, the browser is launched, the listener is
\* created and listen(port) is called.  spawn() reports a missing launcher
\* and listen() reports a busy port by an 'error' event nobody listens for,
\* which terminates the process.
startAuthFlow(userId, l, launch) ==
    [authUrl |-> getAuthorizationUrl(userId, "{}"),
     browser |-> launch,
     listener |-> l,
     listeners |-> [listeners EXCEPT ![l] =
                      [state |-> IF PortBusy THEN "bindfailed" ELSE "listening",
                       account |-> userId]],
     crashed |-> (launch = "errorEvent" \/ PortBusy)]

LaunchOutcomes == {"spawned", "threw", "errorEvent"}

\* A continuation runs to its end before the event loop starts another one:
\* while an invocation is at its observation point (its payload or response
\* is being returned) nothing else runs.
Quiet ==
    /\ ~crashed
    /\ \A c \in Calls : calls[c].pc # "done"
    /\ \A r \in Reqs : reqs[r].pc \notin {"answered", "done", "failed"}

\* The order in which start() walks the account list.
AccountOrder == <<EmailA, EmailB>>

\* start() up to the answer of initialize(), which reads the client identity
\* file: a failure is rethrown by start() and the process exits.
Start(gauthOk) ==
    /\ ~crashed
    /\ phase = "constructed"
    /\ phase' = IF gauthOk THEN "initialized" ELSE "stopped"
    /\ UNCHANGED <<tool, accounts, tokenFile, client, calls, listeners, reqs,
                   usedCodes, crashed, toCheck, events>>

\* A start() that an empty account list stops: the fault C23 excludes.
afterAccountInfo_registryFatal(accts) ==
    IF accts = {} THEN "stopped" ELSE "checking"

\* Where start() goes with the list getAccountInfo() returned: into the loop
\* over the accounts, or straight to server.connect for an empty list.
afterAccountInfo(accts) ==
    IF accts = {} THEN "connected" ELSE "checking"

\* start() from initialize() to the loop: the tools are created and
\* getAccountInfo() reads the account list ([] for a file that is missing or
\* does not parse).
GetAccountInfo ==
    /\ ~crashed
    /\ phase = "initialized"
    /\ phase' = afterAccountInfo(accounts)
    /\ toCheck' = IF afterAccountInfo(accounts) = "checking"
                  THEN AccountOrder ELSE <<>>
    /\ UNCHANGED <<tool, accounts, tokenFile, client, calls, listeners, reqs,
                   usedCodes, crashed, events>>

\* One round of the loop of start(): getStoredCredentials(account.email),
\* and startAuthFlow when it returns null; after the last account the
\* transport is connected.
StartupCheck ==
    /\ Quiet
    /\ phase = "checking"
    /\ LET email == Head(toCheck)
           got == getStoredCredentials(tokenFile, client, email)
       IN
       /\ client' = got.client
       /\ toCheck' = Tail(toCheck)
       /\ phase' = IF Tail(toCheck) = <<>> THEN "connected" ELSE "checking"
       /\ IF got.found
          THEN UNCHANGED <<listeners, crashed>>
          ELSE \E l \in Flows, launch \in LaunchOutcomes :
               /\ FreeFlow(l)
               /\ listeners' = startAuthFlow(email, l, launch).listeners
               /\ crashed' = startAuthFlow(email, l, launch).crashed
    /\ UNCHANGED <<tool, accounts, tokenFile, calls, reqs, usedCodes, events>>

\* The request handler up to its first await on I/O: the argument checks,
\* the list_accounts special case, and setupOAuth2 up to getStoredCredentials
\* (getAccountInfo reads a file that never changes).
CallTool(c, name, isObject, user_id) ==
    /\ Quiet
    /\ phase = "connected"
    /\ events < MaxEvents
    /\ calls[c].pc = "idle"
    /\ \A k \in Calls : k < c => calls[k].pc # "idle"
    /\ events' = events + 1
    /\ LET call == [calls[c] EXCEPT !.name = name, !.user_id = user_id] IN
       calls' = [calls EXCEPT ![c] =
         IF ~isObject THEN ErrorPayload(call, "arguments must be dictionary", "")
         ELSE IF ListAccountsTool(name)
           THEN [call EXCEPT !.pc = "done", !.routed = TRUE,
                             !.result = listAccounts(accounts)]
         ELSE IF MissingUserId(user_id)
           THEN ErrorPayload(call, "user_id argument is missing in dictionary", "")
         ELSE IF accountNotConfigured(accounts, user_id) # ""
           THEN ErrorPayload([call EXCEPT !.setup = TRUE], "OAuth2 setup failed",
                             accountNotConfigured(accounts, user_id))
         ELSE [call EXCEPT !.setup = TRUE, !.pc = "getStored"]]
    /\ UNCHANGED <<tool, accounts, tokenFile, client, listeners, reqs, usedCodes,
                   crashed, phase, toCheck>>

\* A flow started also when the access token has expired: the fault C17
\* excludes.
needsAuthFlow_onExpiry(got, expired) ==
    ~got.found \/ ~credentialsHaveScopes(got.client) \/ expired

\* The branches of setupOAuth2 that call startAuthFlow; an expiry_date in the
\* past (expired) is only logged, in the remaining branch.
needsAuthFlow(got, expired) ==
    ~got.found \/ ~credentialsHaveScopes(got.client)

\* setupOAuth2 after getStoredCredentials has read the token file: without
\* usable credentials it starts the flow, returns, and the dispatcher goes on
\* to route the call; with them it calls getUserInfo.  expired is the outcome
\* of tokens.expiry_date < Date.now(); the call keeps it for a stored record
\* that is found and correctly scoped, the only one whose expiry is read.
StoredRead(c) ==
    /\ Quiet
    /\ calls[c].pc = "getStored"
    /\ \E expired \in BOOLEAN :
       LET got == getStoredCredentials(tokenFile, client, calls[c].user_id)
           call == [calls[c] EXCEPT !.expired =
                      expired /\ got.found /\ credentialsHaveScopes(got.client)]
           kind == RecordKind(tokenFile[call.user_id])
       IN
       IF ~needsAuthFlow(got, expired)
       THEN /\ client' = got.client
            /\ calls' = [calls EXCEPT ![c] =
                           [call EXCEPT !.found = kind, !.pc = "userinfo"]]
            /\ UNCHANGED <<listeners, crashed>>
       ELSE \E l \in Flows, launch \in LaunchOutcomes, toolOk \in BOOLEAN :
            /\ FreeFlow(l)
            /\ LET flow == startAuthFlow(call.user_id, l, launch) IN
               /\ client' = got.client
               /\ listeners' = flow.listeners
               /\ crashed' = flow.crashed
               /\ calls' = [calls EXCEPT ![c] =
                    RouteToolCall(
                      [call EXCEPT
                         !.found = kind,
                         !.authUrl = flow.authUrl,
                         !.browser = flow.browser,
                         !.listener = flow.listener],
                      got.client, toolOk)]
    /\ UNCHANGED <<tool, accounts, tokenFile, reqs, usedCodes, phase, toCheck, events>>

IdentityOutcomes == {"ok", "noid", "error"}

\* setupOAuth2 from the userinfo response (getUserInfo) to its return: on a
\* subject id, storeCredentials(credentials, userId) writes the shared
\* client's credentials as they are when mkdir has completed, and the call is
\* routed; otherwise the error reaches the dispatcher's catch.  The userinfo
\* response touches nothing shared, so it is taken together with the write.
StoreWrite(c, outcome, writeOk, toolOk) ==
    /\ Quiet
    /\ calls[c].pc = "userinfo"
    /\ IF getUserInfo(outcome, client.owner).ok /\ writeOk
       THEN /\ tokenFile' = storeCredentials(tokenFile, client, calls[c].user_id)
            /\ calls' = [calls EXCEPT ![c] =
                 RouteToolCall([@ EXCEPT !.noSubject = (outcome = "noid"),
                                         !.stored = TRUE], client, toolOk)]
       ELSE /\ tokenFile' = tokenFile
            /\ calls' = [calls EXCEPT ![c] =
                 ErrorPayload([@ EXCEPT !.noSubject = (outcome = "noid")],
                              "OAuth2 setup failed",
                              IF getUserInfo(outcome, client.owner).ok
                              THEN "write" ELSE "userinfo")]
    /\ UNCHANGED <<tool, accounts, client, listeners, reqs, usedCodes, crashed, phase,
                   toCheck, events>>

\* The payload has been sent; the invocation is over.
Reply(c) ==
    /\ ~crashed
    /\ calls[c].pc = "done"
    /\ calls' = [calls EXCEPT ![c] = IdleCall]
    /\ UNCHANGED <<tool, accounts, tokenFile, client, listeners, reqs, usedCodes,
                   crashed, phase, toCheck, events>>

\* ----------------------------------------------------- callback listener

IdleReq ==
    [pc |-> "idle", listener |-> 0, path |-> "", status |-> 0, code |-> "",
     email |-> "", noSubject |-> FALSE,
     exchanges |-> 0, wrote |-> {}, via |-> "", ret |-> EmptyCreds,
     error |-> "", authorizationUrl |-> NoUrl]

\* The error of getToken rethrown as it is: the fault C24 excludes.
CodeExchangeError_asThrown(req) ==
    [req EXCEPT !.error = "Error", !.authorizationUrl = NoUrl]

\* new CodeExchangeError('') as thrown by exchangeCode.
CodeExchangeError(req) ==
    [req EXCEPT !.error = "CodeExchangeError", !.authorizationUrl = NoUrl]

\* The error rethrown as exchangeCode made it, with '' for its URL: the
\* fault C8 excludes.
RethrowCodeExchangeError_noUrl(req, emailAddress, state) ==
    [req EXCEPT !.pc = "failed"]

\* getCredentials' catch of a CodeExchangeError: the URL is attached and the
\* same error is rethrown.
RethrowCodeExchangeError(req, emailAddress, state) ==
    [req EXCEPT !.pc = "failed",
                !.authorizationUrl = getAuthorizationUrl(emailAddress, state)]

\* throw new NoRefreshTokenError(authorizationUrl), from the catch block and
\* from the end of getCredentials.
NoRefreshTokenError(req, emailAddress, state) ==
    [req EXCEPT !.pc = "failed", !.error = "NoRefreshTokenError",
                !.authorizationUrl = getAuthorizationUrl(emailAddress, state)]

\* this.server.close()
CloseListener(ls, l) == [ls EXCEPT ![l].state = "closed"]

\* The status written for every request, whatever the path and the code:
\* the fault C12 excludes.
ResponseStatus_always200(path, code) == 200

\* The status handleRequest writes: 404 for a path other than /code, 400
\* when query.code is falsy, else 200.
ResponseStatus(path, code) ==
    IF path # "/code" THEN 404
    ELSE IF code = "" THEN 400
    ELSE 200

\* handleRequest up to the await of the token endpoint: 404 for another
\* path, 400 without code, else 200 and getCredentials -> exchangeCode.
HttpRequest(r, l, path, code) ==
    /\ Quiet
    /\ events < MaxEvents
    /\ reqs[r].pc = "idle"
    /\ \A k \in Reqs : k < r => reqs[k].pc # "idle"
    /\ events' = events + 1
    /\ listeners[l].state = "listening"
    /\ reqs' = [reqs EXCEPT ![r] =
         IF ResponseStatus(path, code) # 200
         THEN [@ EXCEPT !.pc = "answered", !.listener = l, !.path = path,
                        !.status = ResponseStatus(path, code)]
         ELSE [@ EXCEPT !.pc = "exchange", !.listener = l, !.path = path,
                        !.status = 200, !.code = code, !.exchanges = 1]]
    /\ UNCHANGED <<tool, accounts, tokenFile, client, calls, listeners, usedCodes,
                   crashed, phase, toCheck>>

\* A rejected handleRequest promise has no handler: depending on the
\* runtime's unhandled-rejection mode the process is terminated or goes on.
\* The token endpoint answers getToken(code).
TokenResponse(r, fatal) ==
    /\ Quiet
    /\ reqs[r].pc = "exchange"
    /\ IF reqs[r].code \in Codes \ {"code_bad"} /\ reqs[r].code \notin usedCodes
       THEN /\ client' = Grant(reqs[r].code)
            /\ usedCodes' = usedCodes \cup {reqs[r].code}
            /\ reqs' = [reqs EXCEPT ![r] =
                 [@ EXCEPT !.pc = "userinfo"]]
            /\ crashed' = crashed
       ELSE /\ reqs' = [reqs EXCEPT ![r] =
                 RethrowCodeExchangeError(CodeExchangeError(@), "", "{}")]
            /\ crashed' = fatal
            /\ UNCHANGED <<client, usedCodes>>
    /\ UNCHANGED <<tool, accounts, tokenFile, calls, listeners, phase, toCheck, events>>

\* getCredentials when the userinfo response for the exchanged tokens
\* arrives: emailAddress is set and the refresh token of the shared client
\* decides between storeCredentials and the stored-credentials fallback.
UserInfoReply(r, outcome, fatal) ==
    /\ Quiet
    /\ reqs[r].pc = "userinfo"
    /\ LET userInfo == getUserInfo(outcome, Grant(reqs[r].code).owner)
           req == [reqs[r] EXCEPT !.noSubject = (outcome = "noid")]
       IN
       IF userInfo.ok
       THEN /\ reqs' = [reqs EXCEPT ![r] =
                 [req EXCEPT !.email = userInfo.email,
                             !.pc = IF HasRefreshToken(client)
                                    THEN "mkdir" ELSE "readStored"]]
            /\ crashed' = crashed
       ELSE /\ reqs' = [reqs EXCEPT ![r] = NoRefreshTokenError(req, "", "{}")]
            /\ crashed' = fatal
    /\ UNCHANGED <<tool, accounts, tokenFile, client, calls, listeners, usedCodes,
                   phase, toCheck, events>>

\* storeCredentials(credentials, emailAddress) after mkdir, then the return
\* of getCredentials and server.close().
CredWrite(r, writeOk, fatal) ==
    /\ Quiet
    /\ reqs[r].pc = "mkdir"
    /\ IF writeOk
       THEN /\ tokenFile' = storeCredentials(tokenFile, client, reqs[r].email)
            /\ reqs' = [reqs EXCEPT ![r] =
                 [@ EXCEPT !.pc = "done", !.via = "exchanged",
                           !.wrote = {reqs[r].email}, !.ret = client]]
            /\ listeners' = CloseListener(listeners, reqs[r].listener)
            /\ crashed' = crashed
       ELSE /\ reqs' = [reqs EXCEPT ![r] =
                 NoRefreshTokenError(@, @.email, "{}")]
            /\ crashed' = fatal
            /\ UNCHANGED <<tokenFile, listeners>>
    /\ UNCHANGED <<tool, accounts, client, calls, usedCodes, phase, toCheck, events>>

\* getStoredCredentials(emailAddress) in the no-refresh-token branch.
StoredFallback(r, fatal) ==
    /\ Quiet
    /\ reqs[r].pc = "readStored"
    /\ LET got == getStoredCredentials(tokenFile, client, reqs[r].email) IN
       /\ client' = got.client
       /\ IF got.found /\ HasRefreshToken(got.client)
          THEN /\ reqs' = [reqs EXCEPT ![r] =
                    [@ EXCEPT !.pc = "done", !.via = "stored", !.ret = got.client]]
               /\ listeners' = CloseListener(listeners, reqs[r].listener)
               /\ crashed' = crashed
          ELSE /\ reqs' = [reqs EXCEPT ![r] =
                    NoRefreshTokenError(@, @.email, "{}")]
               /\ crashed' = fatal
               /\ listeners' = listeners
    /\ UNCHANGED <<tool, accounts, tokenFile, calls, usedCodes, phase, toCheck, events>>

\* handleRequest is over (returned or rejected).
ReqEnd(r) ==
    /\ ~crashed
    /\ reqs[r].pc \in {"answered", "done", "failed"}
    /\ reqs' = [reqs EXCEPT ![r] = IdleReq]
    /\ UNCHANGED <<tool, accounts, tokenFile, client, calls, listeners, usedCodes,
                   crashed, phase, toCheck, events>>

\* ------------------------------------------------------ service handlers

\* process.env.GMAIL_ALLOW_SENDING as the .env file or the environment sets
\* it; "" is unset.
EnvValues == {"", "false", "true"}

\* An optional boolean argument of a tool call: omitted, or given.
Optional == {"absent", "false", "true"}
\* JavaScript truthiness of such an argument (undefined and false are falsy).
Truthy(arg) == arg = "true"

ServiceTools ==
    {"gmail_create_draft", "gmail_reply",
     "calendar_create_event", "calendar_delete_event"}

\* The batch operations, and the message or attachment ids they are given.
BatchTools ==
    {"gmail_bulk_get_emails", "gmail_bulk_save_attachments", "gmail_bulk_archive"}
Ids == {"m1", "m2"}
IdLists == UNION {[1..n -> Ids] : n \in 1..MaxBatch}

\* No handler is running.
IdleTool ==
    [pc |-> "idle", name |-> "", GMAIL_ALLOW_SENDING |-> "",
     required |-> FALSE, send |-> "absent", send_notifications |-> "absent",
     count |-> <<>>, named |-> <<>>,
     items |-> <<>>, stage |-> <<>>, values |-> <<>>, order |-> <<>>,
     upstream |-> <<>>, result |-> "", output |-> <<>>]

\* handleTool(name, args) has been called: required says whether every
\* required argument is there; upstream lists the Google API calls made.
ToolCalls ==
    [pc : {"called"}, name : ServiceTools, GMAIL_ALLOW_SENDING : EnvValues,
     required : BOOLEAN, send : Optional, send_notifications : Optional,
     count : {<<>>}, named : {<<>>},
     items : {<<>>}, stage : {<<>>}, values : {<<>>}, order : {<<>>},
     upstream : {<<>>}, result : {""}, output : {<<>>}]

\* The tools that take a result count (page_size, max_results), and the
\* integers given for it: <<>> is the argument omitted, <<n>> the integer n.
CountTools == {"drive_list_files", "calendar_get_events", "gmail_query_emails"}
Counts == {<<>>} \cup {<<n>> : n \in {-1, 0, 1, 50, 100, 101, 250, 500, 501, 2500, 2501}}
CountCalls ==
    { [IdleTool EXCEPT !.pc = "called", !.name = name, !.required = required,
                       !.count = count] :
        name \in CountTools, required \in BOOLEAN, count \in Counts }

\* A batch operation has been called with a list of ids (items); required is
\* FALSE when user_id is missing or the list is missing or empty.
BatchCalls ==
    { [IdleTool EXCEPT !.pc = "called", !.name = name, !.required = required,
                       !.items = items] :
        name \in BatchTools, required \in BOOLEAN, items \in IdLists }

\* What a service handler leaves alone: the state of the dispatcher, of the
\* listeners and of the token store.
serverVars == <<accounts, tokenFile, client, calls, listeners, reqs,
                usedCodes, crashed, phase, toCheck, events>>

\* A handler ends: it returns a result, or throws to the dispatcher.
Return(t, ok) == [t EXCEPT !.pc = "done", !.result = IF ok THEN "returned" ELSE "thrown"]

\* One Google API call goes out; params are the parameters of interest.
Upstream(t, method, params) ==
    [t EXCEPT !.upstream = Append(@, <<method, params>>)]

\* sendUpdates: args.send_notifications ? 'all' : 'none'
sendUpdates(send_notifications) ==
    IF Truthy(send_notifications) THEN "all" ELSE "none"

\* GmailTools.createDraft: the argument checks, then users.drafts.create.
createDraft(ok) ==
    /\ tool.pc = "called"
    /\ tool.name = "gmail_create_draft"
    /\ tool' = IF ~tool.required THEN Return(tool, FALSE)
               ELSE Return(Upstream(tool, "drafts.create", ""), ok)
    /\ UNCHANGED serverVars

\* GmailTools.reply up to the answer of users.messages.get.
replyGet(ok) ==
    /\ tool.pc = "called"
    /\ tool.name = "gmail_reply"
    /\ tool' = IF ~tool.required THEN Return(tool, FALSE)
               ELSE IF ~ok THEN Return(Upstream(tool, "messages.get", ""), FALSE)
               ELSE [Upstream(tool, "messages.get", "") EXCEPT !.pc = "composed"]
    /\ UNCHANGED serverVars

\* GmailTools.reply after the headers were read: send, or create a draft.
replySend(ok) ==
    /\ tool.pc = "composed"
    /\ tool' = IF Truthy(tool.send)
               THEN Return(Upstream(tool, "messages.send", ""), ok)
               ELSE Return(Upstream(tool, "drafts.create", ""), ok)
    /\ UNCHANGED serverVars

\* CalendarTools.createCalendarEvent: the argument checks, events.insert.
createCalendarEvent(ok) ==
    /\ tool.pc = "called"
    /\ tool.name = "calendar_create_event"
    /\ tool' = IF ~tool.required THEN Return(tool, FALSE)
               ELSE Return(Upstream(tool, "events.insert",
                                    sendUpdates(tool.send_notifications)), ok)
    /\ UNCHANGED serverVars

\* CalendarTools.deleteCalendarEvent: the argument checks, events.delete;
\* a failed delete is returned as a success: false text, not thrown.
deleteCalendarEvent(ok) ==
    /\ tool.pc = "called"
    /\ tool.name = "calendar_delete_event"
    /\ tool' = IF ~tool.required THEN Return(tool, FALSE)
               ELSE [Return(Upstream(tool, "events.delete",
                                     sendUpdates(tool.send_notifications)), TRUE)
                       EXCEPT !.result = IF ok THEN "returned" ELSE "returned failure"]
    /\ UNCHANGED serverVars

\* The Google API method a batch operation calls for each of its ids.
BatchMethod(name) ==
    CASE name = "gmail_bulk_get_emails" -> "messages.get"
      [] name = "gmail_bulk_save_attachments" -> "attachments.get"
      [] name = "gmail_bulk_archive" -> "messages.modify"

\* What the callback of map() returns for one id.
ItemResult(id) == <<id>>

\* The argument checks, then ids.map(async ...) inside Promise.all: the
\* callback is called for every id in turn and runs up to its first await, so
\* every API call has gone out when the handler awaits Promise.all.
startBatch(t) ==
    IF ~t.required THEN Return(t, FALSE)
    ELSE [t EXCEPT !.pc = "waiting",
                   !.stage = [i \in DOMAIN t.items |-> "get"],
                   !.values = [i \in DOMAIN t.items |-> <<>>],
                   !.upstream = [i \in DOMAIN t.items |->
                                   <<BatchMethod(t.name), t.items[i]>>]]

\* The values kept in the order in which the promises were fulfilled: the
\* fault C22 excludes.
collect_completionOrder(values, i, v) ==
    LET free == {k \in DOMAIN values : values[k] = <<>>}
        first == CHOOSE k \in free : \A j \in free : k <= j
    IN [values EXCEPT ![first] = v]

\* Promise.all keeps the value of promise i at index i.
collect(values, i, v) == [values EXCEPT ![i] = v]

\* Promise.all when promise i settles (t.stage already says how): the first
\* rejection rejects it, and the handler's catch rethrows; the last
\* fulfilment resolves it with the values, and the handler returns them.
\* Once it is settled, later settlements are ignored.
promiseAll(t, i, ok) ==
    IF t.pc # "waiting" THEN t
    ELSE IF ~ok THEN Return(t, FALSE)
    ELSE LET vals == collect(t.values, i, ItemResult(t.items[i])) IN
         IF \A k \in DOMAIN t.stage : t.stage[k] = "ok"
         THEN [Return(t, TRUE) EXCEPT !.values = vals, !.output = vals]
         ELSE [t EXCEPT !.values = vals]

bulkGetEmails ==
    /\ tool.pc = "called"
    /\ tool.name = "gmail_bulk_get_emails"
    /\ tool' = startBatch(tool)
    /\ UNCHANGED serverVars

bulkSaveAttachments ==
    /\ tool.pc = "called"
    /\ tool.name = "gmail_bulk_save_attachments"
    /\ tool' = startBatch(tool)
    /\ UNCHANGED serverVars

bulkArchive ==
    /\ tool.pc = "called"
    /\ tool.name = "gmail_bulk_archive"
    /\ tool' = startBatch(tool)
    /\ UNCHANGED serverVars

\* The callback of map() for the id at index i continues when its awaited
\* call completes (ok: it succeeded, and for an attachment it carried data).
\* bulkSaveAttachments then awaits writeFile; the others return their value.
\* Calls still in flight complete also after the batch has been rejected.
itemSettles(i, ok) ==
    /\ tool.pc \in {"waiting", "done"}
    /\ tool.name \in BatchTools \cup {"gmail_query_emails"}
    /\ i \in DOMAIN tool.stage
    /\ tool.stage[i] \in {"get", "write"}
    /\ tool' =
         IF ok /\ tool.stage[i] = "get" /\ tool.name = "gmail_bulk_save_attachments"
         THEN [Upstream(tool, "writeFile", tool.items[i]) EXCEPT !.stage[i] = "write"]
         ELSE promiseAll([tool EXCEPT !.stage[i] = IF ok THEN "ok" ELSE "failed",
                                      !.order = Append(@, i)], i, ok)
    /\ UNCHANGED serverVars

Max(a, b) == IF a >= b THEN a ELSE b
Min(a, b) == IF a <= b THEN a ELSE b

\* arg || d for an optional integer: d when arg is undefined or 0.
OrDefault(arg, d) == IF arg = <<>> \/ arg[1] = 0 THEN d ELSE arg[1]

\* Math.min(Math.max(1, args.page_size || 50), 100)
listFiles_pageSize(page_size) == Min(Max(1, OrDefault(page_size, 50)), 100)

\* Math.min(Math.max(1, args.max_results || 250), 2500)
getCalendarEvents_maxResults(max_results) ==
    Min(Max(1, OrDefault(max_results, 250)), 2500)

\* maxResults: args.max_results || 100
queryEmails_maxResults(max_results) == OrDefault(max_results, 100)

\* DriveTools.listFiles: ensureUserId, then files.list.
listFiles(ok) ==
    /\ tool.pc = "called"
    /\ tool.name = "drive_list_files"
    /\ tool' = IF ~tool.required THEN Return(tool, FALSE)
               ELSE Return(Upstream(tool, "files.list",
                                    listFiles_pageSize(tool.count)), ok)
    /\ UNCHANGED serverVars

\* CalendarTools.getCalendarEvents: the user_id check, then events.list; an
\* error is rethrown.
getCalendarEvents(ok) ==
    /\ tool.pc = "called"
    /\ tool.name = "calendar_get_events"
    /\ tool' = IF ~tool.required THEN Return(tool, FALSE)
               ELSE Return(Upstream(tool, "events.list",
                                    getCalendarEvents_maxResults(tool.count)), ok)
    /\ UNCHANGED serverVars

\* GmailTools.queryEmails: the user_id check, messages.list, and for the
\* messages it returns one messages.get each inside Promise.all (an empty
\* list resolves at once).
queryEmails(ok, messages) ==
    /\ tool.pc = "called"
    /\ tool.name = "gmail_query_emails"
    /\ tool' =
         IF ~tool.required THEN Return(tool, FALSE)
         ELSE LET listed == Upstream(tool, "messages.list",
                                     queryEmails_maxResults(tool.count)) IN
              IF ~ok THEN Return(listed, FALSE)
              ELSE IF messages = <<>> THEN Return(listed, TRUE)
              ELSE [listed EXCEPT
                      !.pc = "waiting",
                      !.items = messages,
                      !.stage = [i \in DOMAIN messages |-> "get"],
                      !.values = [i \in DOMAIN messages |-> <<>>],
                      !.upstream = @ \o [i \in DOMAIN messages |->
                                           <<"messages.get", messages[i]>>]]
    /\ UNCHANGED serverVars

\* A tool name, written as its part up to and including the first '_' and
\* the rest, so that name.startsWith(prefix) can be computed for the
\* dispatcher's prefixes, which all end at that '_'.
ToolName(head, rest) == <<head, rest>>
startsWith(name, prefix) == name[1] = prefix

\* getTools() of each tool class: the names of its catalog, in order.
getTools(router) ==
    CASE router = "gmail" ->
           << ToolName("gmail_", "list_accounts"),
              ToolName("gmail_", "query_emails"),
              ToolName("gmail_", "get_email"),
              ToolName("gmail_", "bulk_get_emails"),
              ToolName("gmail_", "create_draft"),
              ToolName("gmail_", "delete_draft"),
              ToolName("gmail_", "reply"),
              ToolName("gmail_", "get_attachment"),
              ToolName("gmail_", "bulk_save_attachments"),
              ToolName("gmail_", "archive"),
              ToolName("gmail_", "bulk_archive") >>
      [] router = "calendar" ->
           << ToolName("calendar_", "list_accounts"),
              ToolName("calendar_", "list"),
              ToolName("calendar_", "get_events"),
              ToolName("calendar_", "create_event"),
              ToolName("calendar_", "delete_event") >>
      [] router = "drive" ->
           << ToolName("drive_", "list_files"),
              ToolName("drive_", "get_file_metadata"),
              ToolName("drive_", "export_file"),
              ToolName("drive_", "download_file") >>
      [] router = "docs" -> << ToolName("docs_", "get_document") >>
      [] router = "sheets" ->
           << ToolName("sheets_", "get_values"),
              ToolName("sheets_", "batch_get_values") >>
      [] router = "slides" -> << ToolName("slides_", "get_presentation") >>

\* The ListTools handler: the six catalogs, concatenated.
ListTools ==
    getTools("gmail") \o getTools("calendar") \o getTools("drive")
      \o getTools("docs") \o getTools("sheets") \o getTools("slides")

\* The case labels of the switch of each handleTool.
handleToolCases(router) ==
    CASE router = "gmail" ->
           { ToolName("gmail_", "list_accounts"),
             ToolName("gmail_", "query_emails"),
             ToolName("gmail_", "get_email"),
             ToolName("gmail_", "bulk_get_emails"),
             ToolName("gmail_", "create_draft"),
             ToolName("gmail_", "delete_draft"),
             ToolName("gmail_", "reply"),
             ToolName("gmail_", "get_attachment"),
             ToolName("gmail_", "bulk_save_attachments"),
             ToolName("gmail_", "archive"),
             ToolName("gmail_", "bulk_archive") }
      [] router = "calendar" ->
           { ToolName("calendar_", "list_accounts"),
             ToolName("calendar_", "list"),
             ToolName("calendar_", "get_events"),
             ToolName("calendar_", "create_event"),
             ToolName("calendar_", "delete_event") }
      [] router = "drive" ->
           { ToolName("drive_", "list_files"),
             ToolName("drive_", "get_file_metadata"),
             ToolName("drive_", "export_file"),
             ToolName("drive_", "download_file") }
      [] router = "docs" -> { ToolName("docs_", "get_document") }
      [] router = "sheets" ->
           { ToolName("sheets_", "get_values"),
             ToolName("sheets_", "batch_get_values") }
      [] router = "slides" -> { ToolName("slides_", "get_presentation") }

\* The chain of prefix tests without its last branch: the fault C30
\* excludes.
Router_noSlides(name) ==
    IF startsWith(name, "gmail_") THEN "gmail"
    ELSE IF startsWith(name, "calendar_") THEN "calendar"
    ELSE IF startsWith(name, "drive_") THEN "drive"
    ELSE IF startsWith(name, "docs_") THEN "docs"
    ELSE IF startsWith(name, "sheets_") THEN "sheets"
    ELSE ""

\* The dispatcher's chain of prefix tests: the tool class whose handleTool
\* is called, "" when the chain ends in throw new Error('Unknown tool').
Router(name) ==
    IF startsWith(name, "gmail_") THEN "gmail"
    ELSE IF startsWith(name, "calendar_") THEN "calendar"
    ELSE IF startsWith(name, "drive_") THEN "drive"
    ELSE IF startsWith(name, "docs_") THEN "docs"
    ELSE IF startsWith(name, "sheets_") THEN "sheets"
    ELSE IF startsWith(name, "slides_") THEN "slides"
    ELSE ""

\* Names a client can ask for: the listed ones, and some that are not.
Unlisted ==
    { ToolName("gmail_", "send_email"), ToolName("mail_", "list"),
      ToolName("", "ping") }
RequestCalls ==
    { [IdleTool EXCEPT !.pc = "request", !.named = name] :
        name \in {ListTools[i] : i \in DOMAIN ListTools} \cup Unlisted }

\* The routing of a tool call by its name, up to the case of handleTool that
\* is entered: the handler's method is called (output names the tool class),
\* or 'Unknown tool' is thrown by the dispatcher or by the default case.
routeByName ==
    /\ tool.pc = "request"
    /\ tool' =
         LET router == Router(tool.named) IN
         IF router # "" /\ tool.named \in handleToolCases(router)
         THEN [tool EXCEPT !.pc = "done", !.result = "handled",
                           !.output = <<router>>]
         ELSE [tool EXCEPT !.pc = "done", !.result = "Unknown tool"]
    /\ UNCHANGED serverVars

\* A service handler invoked with any of the arguments, in a server whose
\* dispatcher is otherwise at rest.
ToolInit ==
    /\ accounts = Listed
    /\ tokenFile = [e \in Emails |-> <<>>]
    /\ client = EmptyCreds
    /\ calls = [c \in Calls |-> IdleCall]
    /\ listeners = [l \in Flows |-> UnusedListener]
    /\ reqs = [r \in Reqs |-> IdleReq]
    /\ usedCodes = {}
    /\ crashed = FALSE
    /\ phase = "connected"
    /\ toCheck = <<>>
    /\ events = 0
    /\ tool \in ToolCalls \cup BatchCalls \cup CountCalls \cup RequestCalls

ToolNext ==
    \/ \E ok \in BOOLEAN : createDraft(ok)
    \/ \E ok \in BOOLEAN : replyGet(ok)
    \/ \E ok \in BOOLEAN : replySend(ok)
    \/ \E ok \in BOOLEAN : createCalendarEvent(ok)
    \/ \E ok \in BOOLEAN : deleteCalendarEvent(ok)
    \/ bulkGetEmails
    \/ bulkSaveAttachments
    \/ bulkArchive
    \/ \E i \in 1..MaxBatch, ok \in BOOLEAN : itemSettles(i, ok)
    \/ \E ok \in BOOLEAN : listFiles(ok)
    \/ \E ok \in BOOLEAN : getCalendarEvents(ok)
    \/ \E ok \in BOOLEAN, messages \in IdLists \cup {<<>>} : queryEmails(ok, messages)
    \/ routeByName

ToolSpec == ToolInit /\ [][ToolNext]_vars

\* ------------------------------------------------------- specification

Init ==
    /\ accounts \in {Listed, {}}
    /\ tokenFile \in [Emails -> {<<>>} \cup UNION {StoredChoices(e) : e \in Listed}]
    /\ tokenFile[EmailA] \in StoredChoices(EmailA)
    /\ tokenFile[EmailB] \in {<<>>, <<Cred(EmailB, "rt_stored", SCOPES)>>}
    /\ tokenFile[EmailZ] = <<>>
    /\ accounts = {} => \A e \in Emails : tokenFile[e] = <<>>
    /\ client = EmptyCreds
    /\ calls = [c \in Calls |-> IdleCall]
    /\ listeners = [l \in Flows |-> UnusedListener]
    /\ reqs = [r \in Reqs |-> IdleReq]
    /\ usedCodes = {}
    /\ crashed = FALSE
    /\ phase = "constructed"
    /\ toCheck = <<>>
    /\ events = 0
    /\ tool = IdleTool

Next ==
    \/ \E gauthOk \in BOOLEAN : Start(gauthOk)
    \/ GetAccountInfo
    \/ StartupCheck
    \/ \E c \in Calls, name \in ToolNames, user \in Emails :
          CallTool(c, name, TRUE, user)
    \/ \E c \in Calls, name \in ToolNames, isObject \in BOOLEAN :
          CallTool(c, name, isObject, NoUserId)
    \/ \E c \in Calls : StoredRead(c)
    \/ \E c \in Calls, outcome \in IdentityOutcomes, writeOk \in BOOLEAN, toolOk \in BOOLEAN :
          StoreWrite(c, outcome, writeOk, toolOk)
    \/ \E c \in Calls : Reply(c)
    \/ \E r \in Reqs, l \in Flows, path \in {"/code", "/other"}, code \in Codes \cup {""} :
          HttpRequest(r, l, path, code)
    \/ \E r \in Reqs, fatal \in BOOLEAN : TokenResponse(r, fatal)
    \/ \E r \in Reqs, outcome \in IdentityOutcomes, fatal \in BOOLEAN :
          UserInfoReply(r, outcome, fatal)
    \/ \E r \in Reqs, writeOk \in BOOLEAN, fatal \in BOOLEAN : CredWrite(r, writeOk, fatal)
    \/ \E r \in Reqs, fatal \in BOOLEAN : StoredFallback(r, fatal)
    \/ \E r \in Reqs : ReqEnd(r)

Spec == Init /\ [][Next]_vars

\* ----------------------------------------------------------------- claims

\* C1: a tool call that carries a user_id is routed to a service handler only
\* if setupOAuth2 found a stored, correctly-scoped credential for the
\* account; with no stored credential or an under-scoped one it is not routed.
C1_RoutedOnlyWithStoredCredential ==
    \A c \in Calls :
        (calls[c].setup /\ calls[c].routed) => calls[c].found \in {"valid", "norefresh"}

\* C2: for a user_id that is not listed in the account registry setupOAuth2
\* fails with a not-configured error, the call is rejected, and no
\* authorization URL is built, no browser launched, no listener bound.
C2_UnlistedAccountRejected ==
    \A c \in Calls :
        (calls[c].setup /\ calls[c].user_id \notin accounts) =>
            /\ calls[c].pc = "done"
            /\ calls[c].error \in
                 { <<"OAuth2 setup failed", "No accounts specified">>,
                   <<"OAuth2 setup failed", "Account not specified">> }
            /\ ~calls[c].routed
            /\ calls[c].found = ""
            /\ calls[c].authUrl = NoUrl
            /\ calls[c].browser = ""
            /\ calls[c].listener = 0

C2_Witness ==
    \E c \in Calls :
        /\ calls[c].pc = "done"
        /\ calls[c].user_id = EmailZ
        /\ accounts = Listed
        /\ calls[c].error = <<"OAuth2 setup failed", "Account not specified">>

\* C3: for a listed account whose stored record is under-scoped, the tool
\* call triggers the interactive authorization flow and the stored record is
\* never used as valid: the call is neither routed with it nor is the record
\* persisted again.
C3_UnderScopedNeverUsed ==
    \A c \in Calls :
        calls[c].found = "underscoped" =>
            /\ calls[c].authUrl # NoUrl
            /\ calls[c].listener # 0
            /\ ~calls[c].stored
            /\ ~calls[c].routed

\* C4: for a listed account whose stored record has a refresh token and
\* covers the required scopes, setupOAuth2 takes the stored-credential path:
\* no authorization URL is built, no browser launched, no listener bound.
C4_ValidRecordStartsNoFlow ==
    \A c \in Calls :
        calls[c].found = "valid" =>
            /\ calls[c].pc \in {"userinfo", "done"}
            /\ calls[c].authUrl = NoUrl
            /\ calls[c].browser = ""
            /\ calls[c].listener = 0

C4_Witness ==
    \E c \in Calls :
        /\ calls[c].found = "valid"
        /\ calls[c].pc = "done"
        /\ calls[c].stored
        /\ calls[c].routed
        /\ \A l \in Flows : listeners[l].state = "unused"

\* An authorization URL that restarts the flow: offline access, the required
\* scopes, forced consent.
ValidUrl(url) ==
    /\ url # NoUrl
    /\ url[1] = "offline"
    /\ url[2] = SCOPES
    /\ url[4] = "consent"

StoredRefresh(e) == Parses(tokenFile[e]) /\ HasRefreshToken(tokenFile[e][1])

\* getCredentials of request r completes in this step, other than by a
\* failed write of the token file (an I/O error of storeCredentials).
GetCredentialsEnds(r) ==
    /\ reqs[r].pc \in {"mkdir", "readStored"}
    /\ reqs'[r].pc \in {"done", "failed"}
    /\ ~(reqs[r].pc = "mkdir" /\ reqs'[r].pc = "failed")

\* C5: when getCredentials stores the result of an exchange, the record goes
\* under the email returned by identity resolution and under no other key.
C5_StoredUnderResolvedEmail ==
    [][\A r \in Reqs :
         (reqs[r].pc = "mkdir" /\ reqs'[r].pc = "done") =>
            LET resolved == Grant(reqs[r].code).owner IN
            /\ tokenFile'[resolved] = <<client>>
            /\ \A e \in Emails \ {resolved} : tokenFile'[e] = tokenFile[e]]_vars

C5_Witness ==
    \E r \in Reqs :
        /\ reqs[r].pc = "done"
        /\ reqs[r].via = "exchanged"
        /\ HasRefreshToken(Grant(reqs[r].code))
        /\ listeners[reqs[r].listener].account = EmailA
        /\ reqs[r].email = EmailB
        /\ tokenFile[EmailB] = <<Grant(reqs[r].code)>>
        /\ tokenFile[EmailA] = <<>>

\* C6: when the exchange yields no refresh token and no record with a
\* refresh token is stored for the resolved email, getCredentials fails with
\* NoRefreshTokenError, writes no token file, and the error carries a valid
\* authorization URL.
C6_NoRefreshTokenFails ==
    [][\A r \in Reqs :
         ( /\ GetCredentialsEnds(r)
           /\ ~HasRefreshToken(Grant(reqs[r].code))
           /\ ~StoredRefresh(reqs[r].email) ) =>
            /\ reqs'[r].pc = "failed"
            /\ reqs'[r].error = "NoRefreshTokenError"
            /\ ValidUrl(reqs'[r].authorizationUrl)
            /\ tokenFile' = tokenFile]_vars

\* C7: when the exchange yields no refresh token and a record with a refresh
\* token is stored for the resolved email, getCredentials succeeds, returns
\* credentials holding the stored refresh token, and leaves the token file
\* unchanged.
C7_FallsBackToStoredRefreshToken ==
    [][\A r \in Reqs :
         ( /\ GetCredentialsEnds(r)
           /\ ~HasRefreshToken(Grant(reqs[r].code))
           /\ StoredRefresh(reqs[r].email) ) =>
            /\ reqs'[r].pc = "done"
            /\ reqs'[r].ret.refresh_token = tokenFile[reqs[r].email][1].refresh_token
            /\ tokenFile' = tokenFile]_vars

\* C8: every CodeExchangeError and NoRefreshTokenError that leaves
\* getCredentials carries a non-empty authorization URL built when the
\* failure was handled (its login hint is the email known by then), and the
\* exchange was attempted once.
C8_FailuresCarryUrl ==
    \A r \in Reqs :
        reqs[r].error \in {"CodeExchangeError", "NoRefreshTokenError"} =>
            /\ reqs[r].pc = "failed"
            /\ ValidUrl(reqs[r].authorizationUrl)
            /\ reqs[r].authorizationUrl[5] = reqs[r].email
            /\ reqs[r].exchanges = 1

C8_Witness ==
    \E r \in Reqs :
        /\ reqs[r].pc = "failed"
        /\ reqs[r].error = "CodeExchangeError"
        /\ reqs[r].authorizationUrl # NoUrl

\* C9: when the identity endpoint returns no subject id the operation does
\* not succeed: getCredentials throws and writes no token file; setupOAuth2
\* rejects the tool call, persists nothing and the call is not routed.
C9_NoSubjectNeverSucceeds ==
    [][ /\ \A r \in Reqs :
             (reqs'[r].noSubject /\ ~reqs[r].noSubject) =>
                /\ reqs'[r].pc = "failed"
                /\ reqs'[r].error = "NoRefreshTokenError"
                /\ tokenFile' = tokenFile
        /\ \A c \in Calls :
             (calls'[c].noSubject /\ ~calls[c].noSubject) =>
                /\ calls'[c].pc = "done"
                /\ calls'[c].error = <<"OAuth2 setup failed", "userinfo">>
                /\ ~calls'[c].routed
                /\ tokenFile' = tokenFile ]_vars

C9_Witness ==
    \E r \in Reqs :
        /\ reqs[r].noSubject
        /\ reqs[r].pc = "failed"
        /\ reqs[r].status = 200

\* C10: once handleRequest has answered 200 and has run to its end, by
\* return or by throw, the listener it served is shut down.
C10_ListenerClosedAfterExchange ==
    \A r \in Reqs :
        (reqs[r].status = 200 /\ reqs[r].pc \in {"done", "failed"}) =>
            (listeners[reqs[r].listener].state = "closed" \/ crashed)

\* C11: a callback listener hands at most one authorization code to
\* getCredentials: while a request answered 200 is being exchanged, no other
\* request of the same listener is answered 200 and exchanged.
C11_OneCodePerListener ==
    \A r1, r2 \in Reqs :
        ( /\ r1 # r2
          /\ reqs[r1].status = 200
          /\ reqs[r2].status = 200 ) =>
            reqs[r1].listener # reqs[r2].listener

\* C12: a request on another path is answered 404 and a request to /code
\* without code 400; such a request attempts no exchange, writes no token
\* file and leaves the listener up, so that a later redirect is accepted.
C12_ProbesLeaveListenerUp ==
    [][\A r \in Reqs :
         /\ (reqs[r].pc = "idle" /\ reqs'[r].pc # "idle") =>
              /\ reqs'[r].status = 404 <=> reqs'[r].path # "/code"
              /\ reqs'[r].status = 400 <=>
                    (reqs'[r].path = "/code" /\ reqs'[r].code = "")
              /\ reqs'[r].status \in {404, 400} =>
                    /\ reqs'[r].pc = "answered"
                    /\ reqs'[r].exchanges = 0
                    /\ <<tokenFile, client, usedCodes, listeners>>' =
                          <<tokenFile, client, usedCodes, listeners>>
         /\ (reqs[r].pc = "answered" /\ reqs'[r].pc = "idle") =>
              /\ listeners'[reqs[r].listener].state = "listening"
              /\ <<tokenFile, client, usedCodes>>' = <<tokenFile, client, usedCodes>>
    ]_vars

C12_Witness ==
    \E r \in Reqs :
        /\ reqs[r].pc = "answered"
        /\ reqs[r].status = 400
        /\ listeners[reqs[r].listener].state = "listening"
        /\ events = MaxEvents

\* C13: no flow is started for an account while a flow of that account is
\* pending (its listener is listening).
C13_OneFlowPerAccount ==
    [][\A l \in Flows :
         (listeners[l].state = "unused" /\ listeners'[l].state # "unused") =>
            \A k \in Flows :
                ~( /\ listeners[k].state = "listening"
                   /\ listeners[k].account = listeners'[l].account )]_vars

\* C14: no failure that occurs after startup terminates the process.
C14_NoFailureTerminatesProcess ==
    [][(phase = "connected" /\ ~crashed) => ~crashed']_vars

\* C15: a failure to bind the listener's port does not terminate the process.
C15_BindFailureNotFatal ==
    \A l \in Flows : listeners[l].state = "bindfailed" => ~crashed

\* C16: whatever the outcome of the browser launch of a tool call's flow,
\* the listener is started and, when it could bind the port, the process
\* keeps running.
C16_LaunchFailureNotFatal ==
    \A c \in Calls :
        calls[c].browser \in {"threw", "errorEvent"} =>
            /\ calls[c].listener # 0
            /\ listeners[calls[c].listener].state # "unused"
            /\ listeners[calls[c].listener].state = "listening" => ~crashed

C18_AbsentLeavesClientUnchanged ==
    /\ \A e \in Emails :
         ~Parses(tokenFile[e]) =>
            getStoredCredentials(tokenFile, client, e) =
               [found |-> FALSE, client |-> client]
    /\ \A c \in Calls :
         (calls[c].pc = "done" /\ calls[c].found = "none") =>
            /\ ~Parses(tokenFile[calls[c].user_id])
            /\ HasRouter(calls[c].name) => calls[c].usedCreds = client

C18_Witness ==
    \E c \in Calls :
        /\ calls[c].pc = "done"
        /\ calls[c].found = "none"
        /\ tokenFile[calls[c].user_id] = Unparseable
        /\ client = Cred(EmailB, "rt_stored", SCOPES)
        /\ calls[c].usedCreds = client

\* C19: while GMAIL_ALLOW_SENDING is unset or false, gmail_create_draft and
\* gmail_reply make no Gmail send or draft-create call.
C19_SendingGatedByFlag ==
    tool.GMAIL_ALLOW_SENDING # "true" =>
        \A i \in DOMAIN tool.upstream :
            tool.upstream[i][1] \notin {"messages.send", "drafts.create"}

\* C20: calendar_create_event and calendar_delete_event notify the attendees
\* (sendUpdates 'all') unless send_notifications is explicitly false.
C20_NotificationsDefaultOn ==
    \A i \in DOMAIN tool.upstream :
        tool.upstream[i][1] \in {"events.insert", "events.delete"} =>
            tool.upstream[i][2] =
                IF tool.send_notifications = "false" THEN "none" ELSE "all"

\* C21: a list_accounts tool called with an argument object, with or without
\* user_id, is answered with the account list of the registry; setupOAuth2 is
\* not run, no flow is started, and the shared client's credentials, the
\* token files and the listeners are left as they are.
C21_ListAccountsNeedsNoUser ==
    [][\A c \in Calls :
         ( /\ calls[c].pc = "idle"
           /\ calls'[c].pc # "idle"
           /\ calls'[c].name \in {"gmail_list_accounts", "calendar_list_accounts"}
           /\ calls'[c].error # <<"arguments must be dictionary", "">> ) =>
            /\ calls'[c].pc = "done"
            /\ calls'[c].error = <<>>
            /\ calls'[c].result = listAccounts(accounts)
            /\ ~calls'[c].setup
            /\ calls'[c].found = ""
            /\ calls'[c].authUrl = NoUrl
            /\ calls'[c].browser = ""
            /\ calls'[c].listener = 0
            /\ <<client, tokenFile, listeners, usedCodes>>' =
                  <<client, tokenFile, listeners, usedCodes>>]_vars

C21_Witness ==
    \E c \in Calls :
        /\ calls[c].pc = "done"
        /\ calls[c].name = "gmail_list_accounts"
        /\ calls[c].user_id = EmailZ
        /\ calls[c].result = <<"Found configured account(s)", Listed>>
        /\ calls[c].error = <<>>

\* C22: a batch operation returns a result if and only if every one of its
\* calls succeeded; when a call fails the batch throws and no item is
\* returned; a returned result lists the items in the order of the ids given,
\* whatever the order in which the calls completed.
C22_BatchAllOrNothing ==
    (tool.name \in BatchTools /\ tool.pc = "done" /\ tool.required) =>
        /\ tool.result \in {"returned", "thrown"}
        /\ tool.result = "returned" <=>
              \A i \in DOMAIN tool.items : tool.stage[i] = "ok"
        /\ tool.result = "thrown" =>
              /\ tool.output = <<>>
              /\ \E i \in DOMAIN tool.items : tool.stage[i] = "failed"
        /\ tool.result = "returned" =>
              tool.output = [i \in DOMAIN tool.items |-> ItemResult(tool.items[i])]

C22_Witness ==
    /\ tool.name = "gmail_bulk_save_attachments"
    /\ tool.pc = "done"
    /\ tool.result = "returned"
    /\ tool.items = <<"m1", "m2">>
    /\ tool.order = <<2, 1>>
    /\ tool.output = <<ItemResult("m1"), ItemResult("m2")>>

C24_SecondExchangeFails ==
    [][\A r \in Reqs :
         (reqs[r].pc = "exchange" /\ reqs'[r].pc # "exchange"
            /\ reqs[r].code \in Codes \ {"code_bad"}) =>
            IF reqs[r].code \in usedCodes
            THEN /\ reqs'[r].pc = "failed"
                 /\ reqs'[r].error = "CodeExchangeError"
                 /\ reqs'[r].wrote = {}
                 /\ tokenFile' = tokenFile
                 /\ client' = client
            ELSE /\ reqs'[r].pc = "userinfo"
                 /\ reqs'[r].error = ""
                 /\ client' = Grant(reqs[r].code)]_vars

C24_Witness ==
    \E r \in Reqs :
        /\ reqs[r].pc = "failed"
        /\ reqs[r].code = "code_b"
        /\ reqs[r].error = "CodeExchangeError"
        /\ reqs[r].wrote = {}
        /\ usedCodes = {"code_b"}
        /\ tokenFile[EmailB] = <<Grant("code_b")>>

\* C25: the URL getAuthorizationUrl returns is fixed by the required scopes,
\* the email and the state it is given: access_type offline, prompt consent,
\* the email as login hint, the state echoed.  So is every URL of a started
\* flow (email: the user_id of the call) and every URL attached to a
\* CodeExchangeError or NoRefreshTokenError (email: the one getCredentials
\* knows when it fails, '' before identity resolution).
C25_UrlFixedByItsArguments ==
    /\ \A e \in Emails \cup {""}, st \in {"{}", "{\"k\":1}"} :
          LET url == getAuthorizationUrl(e, st) IN
          /\ url[1] = "offline"
          /\ url[2] = SCOPES
          /\ url[3] = st
          /\ url[4] = "consent"
          /\ url[5] = e
    /\ \A c \in Calls :
          calls[c].authUrl # NoUrl =>
             calls[c].authUrl =
                <<"offline", SCOPES, "{}", "consent", calls[c].user_id>>
    /\ \A r \in Reqs :
          reqs[r].error \in {"CodeExchangeError", "NoRefreshTokenError"} =>
             reqs[r].authorizationUrl =
                <<"offline", SCOPES, "{}", "consent", reqs[r].email>>

C25_Witness ==
    \E r \in Reqs :
        /\ reqs[r].pc = "failed"
        /\ reqs[r].error = "NoRefreshTokenError"
        /\ reqs[r].email = EmailA
        /\ reqs[r].authorizationUrl =
              <<"offline", SCOPES, "{}", "consent", EmailA>>

\* C26: start() checks the token file of every registered account before it
\* connects the transport; an account whose token file is read gets no flow,
\* and every account without one gets a flow whose listener listens on the
\* OAuth port for the callback, also when several accounts lack credentials.
C26_StartupFlowPerAccount ==
    [][ /\ phase' = "connected" => toCheck' = <<>>
        /\ (phase = "checking" /\ toCheck' # toCheck) =>
             LET email == Head(toCheck) IN
             IF Parses(tokenFile[email])
             THEN listeners' = listeners
             ELSE \E l \in Flows :
                    /\ listeners[l].state = "unused"
                    /\ listeners'[l] = [state |-> "listening", account |-> email]
      ]_vars

\* C27: a service handler invoked for a tool call with user_id A, after
\* setupOAuth2 has loaded the stored credentials of A, makes its REST calls
\* with the credentials of A on the shared client, whatever other tool
\* calls, startup checks and callback exchanges run in between.
C27_HandlerUsesOwnCredentials ==
    \A c \in Calls :
        ( /\ calls[c].setup
          /\ calls[c].routed
          /\ calls[c].found \in {"valid", "norefresh"} ) =>
            calls[c].usedCreds.owner = calls[c].user_id

\* C28: a tool call other than the list_accounts tools whose arguments are
\* not an object or carry no user_id is answered with an error payload at
\* once: setupOAuth2 is not entered (no account lookup, no token file read),
\* no flow is started, no service handler runs, and the shared client, the
\* token files and the listeners are left as they are.
C28_MissingUserIdRejected ==
    [][\A c \in Calls :
         ( /\ calls[c].pc = "idle"
           /\ calls'[c].pc # "idle"
           /\ calls'[c].name \notin {"gmail_list_accounts", "calendar_list_accounts"}
           /\ calls'[c].user_id = NoUserId ) =>
            /\ calls'[c].pc = "done"
            /\ calls'[c].error \in
                 { <<"arguments must be dictionary", "">>,
                   <<"user_id argument is missing in dictionary", "">> }
            /\ ~calls'[c].setup
            /\ ~calls'[c].routed
            /\ calls'[c].found = ""
            /\ calls'[c].authUrl = NoUrl
            /\ calls'[c].browser = ""
            /\ calls'[c].listener = 0
            /\ <<client, tokenFile, listeners, usedCodes>>' =
                  <<client, tokenFile, listeners, usedCodes>>]_vars

C28_Witness ==
    \E c \in Calls :
        /\ calls[c].pc = "done"
        /\ calls[c].name = "gmail_get_email"
        /\ calls[c].user_id = NoUserId
        /\ calls[c].error = <<"user_id argument is missing in dictionary", "">>
        /\ accounts = Listed

\* C29: the result count sent upstream lies within the range of the tool's
\* schema for every integer given, and is the schema's default when none is
\* given: pageSize of files.list in 1..100 (50), maxResults of events.list in
\* 1..2500 (250), maxResults of messages.list in 1..500 (100).
C29_CountWithinSchemaRange ==
    \A i \in DOMAIN tool.upstream :
        LET method == tool.upstream[i][1]
            sent == tool.upstream[i][2]
        IN
        /\ method = "files.list" =>
              /\ sent \in 1..100
              /\ tool.count = <<>> => sent = 50
        /\ method = "events.list" =>
              /\ sent \in 1..2500
              /\ tool.count = <<>> => sent = 250
        /\ method = "messages.list" =>
              /\ sent \in 1..500
              /\ tool.count = <<>> => sent = 100

\* C30: the names the ListTools handler returns are pairwise distinct, and a
\* call of any of them is routed by its prefix to the tool class whose
\* catalog lists it and enters a case of that class's handleTool: it never
\* ends in 'Unknown tool'.
C30_ListedToolsDispatchable ==
    /\ \A i, j \in DOMAIN ListTools : ListTools[i] = ListTools[j] => i = j
    /\ (tool.pc = "done" /\ tool.named # <<>>
           /\ \E i \in DOMAIN ListTools : ListTools[i] = tool.named) =>
          /\ tool.result = "handled"
          /\ \E r \in {"gmail", "calendar", "drive", "docs", "sheets", "slides"} :
                /\ tool.output = <<r>>
                /\ \E k \in DOMAIN getTools(r) : getTools(r)[k] = tool.named

C30_Witness ==
    /\ tool.pc = "done"
    /\ tool.named = ToolName("slides_", "get_presentation")
    /\ tool.result = "handled"
    /\ tool.output = <<"slides">>

====
